---- MODULE Spec2Model ----
(***************************************************************************)
(* Adaptive merge sort (src/mergesort.c, lines 1-304).                     *)
(*                                                                         *)
(* The sequence is an array of Item records (src/test.c) compared by       *)
(* compare_items.  Pointers into the array (head, mid, tail, div[k]) are   *)
(* kept as element offsets from `items`; byte quantities (buf_size, the    *)
(* operands of the length tests) are offsets multiplied by `size`.         *)
(***************************************************************************)
EXTENDS Integers, Sequences, FiniteSets, TLC

MaxLen == 6
\* longest sequence whose every content over 0..MaxVal is an input

MaxVal == 2
\* largest key of the exhaustively enumerated inputs

MaxItems == 25
\* largest n_items handed to gen_array

NSwaps == 1
\* n_swaps of the test driver's first round

SizeofItem == 8
\* sizeof (Item): two ints

MinRun == 4
\* shortest run the scan accepts before a descent may end it

DivCap == 64
\* entries of the div array

ElemSizes == {4, 8, 12}
\* element sizes: the two word-optimised cases and a generic one

VARIABLES items, n_items, size, input, first, round, pc,
          head, mid, div, n_div, buf, buf_size,
          n_compare, n_insert, n_merge, n_merge3, n_free, max_left,
          n_write, last, alloc_failed, inv, bufs, rev_copies, loop

vars == <<items, n_items, size, input, first, round, pc,
          head, mid, div, n_div, buf, buf_size,
          n_compare, n_insert, n_merge, n_merge3, n_free, max_left,
          n_write, last, alloc_failed, inv, bufs, rev_copies, loop>>

\* what a single invocation that allocates successfully leaves alone
others == <<alloc_failed, inv, bufs, rev_copies, loop>>

Unset == -1

\* the pointers of do_merge before its loop is entered
NoLoop == [a |-> Unset, a_end |-> Unset, b |-> Unset, dest |-> Unset]
\* a local pointer that has not been assigned yet

(***************************************************************************)
(* Elements and their comparison                                           *)
(***************************************************************************)
Item(v, i) == [val |-> v, idx |-> i]

compare_items(a, b) ==
    IF a.val < b.val THEN -1 ELSE IF a.val = b.val THEN 0 ELSE 1

\* the element a pointer p (an offset from the array's start) points at
At(s, p) == s[p + 1]

\* memcpy/memmove of the elements src[from, to) onto s starting at offset d
MoveTo(s, d, src, from, to) ==
    [k \in 1..Len(s) |->
        IF k > d /\ k <= d + (to - from) THEN src[from + (k - d)] ELSE s[k]]

(***************************************************************************)
(* gen_array of the test driver                                            *)
(***************************************************************************)
SwapVals(v, a, b) ==
    [k \in 1..Len(v) |-> IF k = a + 1 THEN v[b + 1]
                          ELSE IF k = b + 1 THEN v[a + 1] ELSE v[k]]

RECURSIVE ApplySwaps(_, _)
ApplySwaps(v, swaps) ==
    IF swaps = <<>> THEN v
    ELSE ApplySwaps(SwapVals(v, swaps[1][1], swaps[1][2]), Tail(swaps))

gen_array(n, swaps, rev) ==
    LET start == [k \in 1..n |-> IF rev THEN n - 1 - (k - 1) ELSE k - 1]
        vals  == ApplySwaps(start, swaps)
    IN  [k \in 1..n |-> Item(vals[k], k - 1)]

(***************************************************************************)
(* insert_head: inserts the element at head into the sorted [head+1, tail) *)
(***************************************************************************)
\* the test that stops the search for the insertion point
InsertStopAtOnce(temp, next) == TRUE
InsertStop(temp, next) == compare_items(temp, next) < 1

\* dest after the for loop, and the comparisons it made
RECURSIVE InsertScan(_, _, _, _, _)
InsertScan(s, temp, dest, tl, ncmp) ==
    IF dest + 1 < tl
    THEN IF InsertStop(temp, At(s, dest + 1))
         THEN [dest |-> dest, ncmp |-> ncmp + 1]
         ELSE InsertScan(s, temp, dest + 1, tl, ncmp + 1)
    ELSE [dest |-> dest, ncmp |-> ncmp]

insert_head(s, hd, tl, sz, bf, bfsz) ==
    LET temp  == At(s, hd)
        r     == InsertScan(s, temp, hd + 1, tl, 0)
        moved == [k \in 1..Len(s) |->
                    IF k - 1 >= hd /\ k - 1 < r.dest THEN s[k + 1]
                    ELSE IF k - 1 = r.dest THEN temp ELSE s[k]]
        word  == sz \in {4, 8}
        grow  == ~word /\ bfsz < sz
    IN  [items    |-> moved,
         ncmp     |-> r.ncmp,
         nwrite   |-> r.dest - hd + 1,
         buf      |-> IF word THEN bf
                      ELSE IF grow THEN <<temp>>
                      ELSE [k \in 1..Len(bf) |-> IF k = 1 THEN temp ELSE bf[k]],
         buf_size |-> IF grow THEN sz ELSE bfsz]

(***************************************************************************)
(* do_merge: merges the sorted [head, mid) and [mid, tail)                  *)
(***************************************************************************)
\* the merge takes the element of list "a" (the copy of the left run)
TakeLeftStrict(a, b) == compare_items(a, b) < 0
TakeLeft(a, b) == compare_items(a, b) < 1

\* strictly separate (but reversed) lists
SeparateSwapped(afirst, blast) == compare_items(blast, afirst) > 0
Separate(afirst, blast) == compare_items(afirst, blast) > 0

\* copy remainder of list "a"
NoRemainder(s, dest, bf, a, a_end) == s
CopyRemainder(s, dest, bf, a, a_end) ==
    IF a < a_end THEN MoveTo(s, dest, bf, a, a_end) ELSE s

\* intersperse elements
RECURSIVE MergeLoop(_, _, _, _, _, _, _, _)
MergeLoop(s, bf, a, a_end, b, tl, dest, ncmp) ==
    IF a < a_end /\ b < tl
    THEN IF TakeLeft(At(bf, a), At(s, b))
         THEN MergeLoop([s EXCEPT ![dest + 1] = At(bf, a)],
                        bf, a + 1, a_end, b, tl, dest + 1, ncmp + 1)
         ELSE MergeLoop([s EXCEPT ![dest + 1] = At(s, b)],
                        bf, a, a_end, b + 1, tl, dest + 1, ncmp + 1)
    ELSE [items |-> CopyRemainder(s, dest, bf, a, a_end), ncmp |-> ncmp,
          dest |-> dest, a |-> a]

\* lines 107-114: the buffer is grown if needed and list "a" is copied to it
CopyLeftFit(s, hd, md, sz, bf, bfsz) ==
    [buf      |-> [k \in 1..(md - hd) |-> s[hd + k]],
     buf_size |-> (md - hd) * sz]
CopyLeft(s, hd, md, sz, bf, bfsz) ==
    LET left == md - hd
        grow == bfsz < left * sz
    IN  [buf      |-> [k \in 1..(IF grow THEN left ELSE Len(bf)) |->
                         IF k <= left THEN s[hd + k] ELSE bf[k]],
         buf_size |-> IF grow THEN left * sz ELSE bfsz]

\* lines 116-181: the lists are merged from the buffer bf into [head, tail)
MergeFrom(s, hd, md, tl, bf) ==
    LET left  == md - hd
        sep   == Separate(At(bf, 0), At(s, tl - 1))
        s1    == IF sep THEN MoveTo(s, hd, s, md, tl) ELSE s
        dest  == IF sep THEN hd + (tl - md) ELSE hd
        b     == IF sep THEN tl ELSE md
        r     == MergeLoop(s1, bf, 0, left, b, tl, dest, 1)
    IN  [items  |-> r.items,
         ncmp   |-> r.ncmp,
         nwrite |-> (IF sep THEN tl - md ELSE 0) + (r.dest - dest)
                      + (left - r.a)]

do_merge(s, hd, md, tl, sz, bf, bfsz) ==
    LET c == CopyLeft(s, hd, md, sz, bf, bfsz)
        m == MergeFrom(s, hd, md, tl, c.buf)
    IN  [items    |-> m.items,
         ncmp     |-> m.ncmp,
         nwrite   |-> m.nwrite,
         buf      |-> c.buf,
         buf_size |-> c.buf_size]

(***************************************************************************)
(* mergesort: the tests of the top-level loop                               *)
(***************************************************************************)
\* a list with 0 or 1 element is sorted by definition
Trivial(n) == n < 2

\* the scan found a descent between head-1 and head
DescentOrTie(s, hd) == compare_items(At(s, hd - 1), At(s, hd)) >= 0
Descent(s, hd) == compare_items(At(s, hd - 1), At(s, hd)) > 0

\* the run [head, mid) is still too short to be ended by a descent
RunTooShortByOne(hd, md, sz) == (md - hd) * sz < (MinRun - 1) * sz
RunNeverShort(hd, md, sz) == FALSE
RunTooShort(hd, md, sz) == (md - hd) * sz < MinRun * sz

tail  == div[n_div]
tail2 == div[n_div - 1]

\* the new run is longer than the second run of the stack
ThreeWayHalf(hd, md, tl, tl2, sz) ==
    (md - hd) * sz > ((tl2 - tl) * sz) \div 2
ThreeWay(hd, md, tl, tl2, sz) == (md - hd) * sz > (tl2 - tl) * sz

\* the new run is short enough to be pushed
KeepRunAlways(hd, md, tl, sz) == hd > 0
KeepRunLax(hd, md, tl, sz) ==
    hd > 0 /\ (md - hd) * sz <= (tl - md) * sz
KeepRunAtStart(hd, md, tl, sz) ==
    (md - hd) * sz <= ((tl - md) * sz) \div 2
KeepRun(hd, md, tl, sz) ==
    hd > 0 /\ (md - hd) * sz <= ((tl - md) * sz) \div 2

(***************************************************************************)
(* Initial states: the caller's array, before mergesort is entered          *)
(***************************************************************************)
Locals ==
    /\ pc = "start"
    /\ head = Unset /\ mid = Unset
    /\ div = <<>> /\ n_div = 0
    /\ buf = <<>> /\ buf_size = 0
    /\ n_compare = 0 /\ n_insert = 0 /\ n_merge = 0 /\ n_merge3 = 0
    /\ n_free = 0 /\ max_left = 0
    /\ n_write = 0
    /\ last = "call"
    /\ alloc_failed = FALSE
    /\ inv = <<>> /\ bufs = <<>>
    /\ rev_copies = <<>>
    /\ loop = NoLoop

InitAll ==
    \E n \in 0..MaxLen : \E v \in [1..n -> 0..MaxVal] : \E sz \in ElemSizes :
        /\ items = [k \in 1..n |-> Item(v[k], k - 1)]
        /\ n_items = n
        /\ size = sz

InitGen ==
    \E n \in 0..MaxItems : \E rev \in BOOLEAN :
    \E sw \in [1..NSwaps -> (0..(n - 1)) \X (0..(n - 1))] :
        /\ items = gen_array(n, sw, rev)
        /\ n_items = n
        /\ size = SizeofItem

Init ==
    /\ InitAll \/ InitGen
    /\ input = items
    /\ first = <<>>
    /\ round = 1
    /\ Locals

(***************************************************************************)
(* mergesort, step by step                                                  *)
(***************************************************************************)
\* lines 189-204: the early return, else the locals are set up
EnterAllocFirst ==
    /\ pc = "start"
    /\ buf' = <<Item(0, 0)>> /\ buf_size' = size
    /\ IF Trivial(n_items)
       THEN /\ pc' = "done"
            /\ UNCHANGED <<head, n_div, div>>
       ELSE /\ pc' = "run"
            /\ head' = n_items
            /\ n_div' = 0 /\ div' = <<>>
    /\ UNCHANGED <<items, n_items, size, input, first, round, mid,
                   n_compare, n_insert, n_merge, n_merge3, n_free, max_left, n_write>>
    /\ last' = "Enter"
    /\ UNCHANGED others
Enter ==
    /\ pc = "start"
    /\ IF Trivial(n_items)
       THEN /\ pc' = "done"
            /\ UNCHANGED <<head, buf, buf_size, n_div, div>>
       ELSE /\ pc' = "run"
            /\ head' = n_items
            /\ buf' = <<>> /\ buf_size' = 0
            /\ n_div' = 0 /\ div' = <<>>
    /\ UNCHANGED <<items, n_items, size, input, first, round, mid,
                   n_compare, n_insert, n_merge, n_merge3, n_free, max_left, n_write>>
    /\ last' = "Enter"
    /\ UNCHANGED others

\* lines 208-209: a new run starts where the last one began
StartRun ==
    /\ pc = "run"
    /\ mid' = head
    /\ head' = head - 1
    /\ pc' = "scan"
    /\ UNCHANGED <<items, n_items, size, input, first, round, div, n_div,
                   buf, buf_size, n_compare, n_insert, n_merge, n_merge3,
                   n_free, max_left, n_write>>
    /\ last' = "StartRun"
    /\ UNCHANGED others

\* line 214 false: the scan reached the start of the array
ScanEnd ==
    /\ pc = "scan"
    /\ ~(head > 0)
    /\ pc' = "collapse"
    /\ UNCHANGED <<items, n_items, size, input, first, round, head, mid, div,
                   n_div, buf, buf_size, n_compare, n_insert, n_merge,
                   n_merge3, n_free, max_left, n_write>>
    /\ last' = "ScanEnd"
    /\ UNCHANGED others

\* lines 216, 224: no descent, the run grows by one element
ScanAscend ==
    /\ pc = "scan"
    /\ head > 0
    /\ ~Descent(items, head)
    /\ head' = head - 1
    /\ n_compare' = n_compare + 1
    /\ UNCHANGED <<items, n_items, size, input, first, round, pc, mid, div,
                   n_div, buf, buf_size, n_insert, n_merge, n_merge3, n_free,
                   max_left, n_write>>
    /\ last' = "ScanAscend"
    /\ UNCHANGED others

\* lines 216-219, 224: a descent in a short run is repaired by insertion
ScanInsert ==
    /\ pc = "scan"
    /\ head > 0
    /\ Descent(items, head)
    /\ RunTooShort(head, mid, size)
    /\ LET r == insert_head(items, head - 1, mid, size, buf, buf_size)
       IN  /\ items' = r.items
           /\ buf' = r.buf
           /\ buf_size' = r.buf_size
           /\ n_write' = n_write + r.nwrite
           /\ n_compare' = n_compare + 1 + r.ncmp
    /\ n_insert' = n_insert + 1
    /\ head' = head - 1
    /\ UNCHANGED <<n_items, size, input, first, round, pc, mid, div, n_div,
                   n_merge, n_merge3, n_free, max_left>>
    /\ last' = "ScanInsert"
    /\ UNCHANGED others

\* lines 216-221: a descent ends a run of at least MinRun elements
ScanBreak ==
    /\ pc = "scan"
    /\ head > 0
    /\ Descent(items, head)
    /\ ~RunTooShort(head, mid, size)
    /\ n_compare' = n_compare + 1
    /\ pc' = "collapse"
    /\ UNCHANGED <<items, n_items, size, input, first, round, head, mid, div,
                   n_div, buf, buf_size, n_insert, n_merge, n_merge3, n_free,
                   max_left, n_write>>
    /\ last' = "ScanBreak"
    /\ UNCHANGED others

\* lines 232-275: the two topmost runs of the stack are merged
CanMerge3 ==
    /\ pc = "collapse"
    /\ n_div >= 2
    /\ ThreeWay(head, mid, tail, tail2, size)

Merge3 ==
    /\ CanMerge3
    /\ LET r == do_merge(items, mid, tail, tail2, size, buf, buf_size)
       IN  /\ items' = r.items
           /\ buf' = r.buf
           /\ buf_size' = r.buf_size
           /\ n_write' = n_write + r.nwrite
           /\ n_compare' = n_compare + r.ncmp
    /\ max_left' = IF tail - mid > max_left THEN tail - mid ELSE max_left
    /\ div' = SubSeq(div, 1, n_div - 2) \o <<tail2>>
    /\ n_div' = n_div - 1
    /\ n_merge' = n_merge + 1
    /\ n_merge3' = n_merge3 + 1
    /\ UNCHANGED <<n_items, size, input, first, round, pc, head, mid,
                   n_insert, n_free>>
    /\ last' = "Merge3"
    /\ UNCHANGED others

\* lines 287-293: the new run is merged with its right-hand neighbour
CanMerge2 ==
    /\ pc = "collapse"
    /\ n_div >= 1
    /\ ~CanMerge3
    /\ ~KeepRun(head, mid, tail, size)

Merge2 ==
    /\ CanMerge2
    /\ LET r == do_merge(items, head, mid, tail, size, buf, buf_size)
       IN  /\ items' = r.items
           /\ buf' = r.buf
           /\ buf_size' = r.buf_size
           /\ n_write' = n_write + r.nwrite
           /\ n_compare' = n_compare + r.ncmp
    /\ max_left' = IF mid - head > max_left THEN mid - head ELSE max_left
    /\ mid' = tail
    /\ div' = SubSeq(div, 1, n_div - 1)
    /\ n_div' = n_div - 1
    /\ n_merge' = n_merge + 1
    /\ UNCHANGED <<n_items, size, input, first, round, pc, head,
                   n_insert, n_merge3, n_free>>
    /\ last' = "Merge2"
    /\ UNCHANGED others

\* lines 228, 287-288, 296-300: the new run is pushed onto the stack
CanPush ==
    /\ pc = "collapse"
    /\ \/ n_div = 0
       \/ /\ n_div >= 1
          /\ ~CanMerge3
          /\ KeepRun(head, mid, tail, size)

Push ==
    /\ CanPush
    /\ div' = Append(div, mid)
    /\ n_div' = n_div + 1
    /\ pc' = IF head > 0 THEN "run" ELSE "free"
    /\ UNCHANGED <<items, n_items, size, input, first, round, head, mid,
                   buf, buf_size, n_compare, n_insert, n_merge, n_merge3,
                   n_free, max_left, n_write>>
    /\ last' = "Push"
    /\ UNCHANGED others

\* lines 302-303: release any temporary storage used
Return ==
    /\ pc = "free"
    /\ buf' = <<>>
    /\ n_free' = n_free + 1
    /\ pc' = "done"
    /\ UNCHANGED <<items, n_items, size, input, first, round, head, mid, div,
                   n_div, buf_size, n_compare, n_insert, n_merge, n_merge3,
                   max_left, n_write>>
    /\ last' = "Return"
    /\ UNCHANGED others

\* the caller sorts the sorted array once more
Resort ==
    /\ pc = "done"
    /\ round = 1
    /\ round' = 2
    /\ first' = items
    /\ input' = items
    /\ pc' = "start"
    /\ head' = Unset /\ mid' = Unset
    /\ div' = <<>> /\ n_div' = 0
    /\ buf' = <<>> /\ buf_size' = 0
    /\ n_compare' = 0 /\ n_insert' = 0 /\ n_merge' = 0 /\ n_merge3' = 0
    /\ n_free' = 0 /\ max_left' = 0 /\ n_write' = 0
    /\ UNCHANGED <<items, n_items, size>>
    /\ last' = "Resort"
    /\ UNCHANGED others

Next ==
    \/ Enter
    \/ StartRun
    \/ ScanEnd
    \/ ScanAscend
    \/ ScanInsert
    \/ ScanBreak
    \/ Merge3
    \/ Merge2
    \/ Push
    \/ Return
    \/ Resort

Spec == Init /\ [][Next]_vars

(***************************************************************************)
(* Properties                                                               *)
(***************************************************************************)
Ascending(s) ==
    \A i \in 1..(Len(s) - 1) : compare_items(s[i + 1], s[i]) >= 0

Stable(s) ==
    \A i \in 1..(Len(s) - 1) :
        compare_items(s[i], s[i + 1]) = 0 => s[i].idx < s[i + 1].idx

Elements(s) == {s[i] : i \in 1..Len(s)}

Permutation(s, t) ==
    /\ Len(s) = Len(t)
    /\ Elements(s) = Elements(t)
    /\ \A i, j \in 1..Len(s) : s[i] = s[j] => i = j

HasTie(s) == \E i, j \in 1..Len(s) : i # j /\ s[i].val = s[j].val

RECURSIVE CeilLog2(_)
CeilLog2(m) == IF m <= 1 THEN 0 ELSE 1 + CeilLog2((m + 1) \div 2)

\* the boundaries of the stacked runs, left to right: the start of the
\* newest run, then div[n_div - 1] .. div[0]
StackTop == IF pc = "scan" THEN mid ELSE head
Bounds == <<StackTop>> \o [k \in 1..n_div |-> div[n_div + 1 - k]]
RunLen(k) == Bounds[k + 1] - Bounds[k]
Settled == pc \in {"run", "scan", "free", "done"} /\ n_div >= 1

\* C1: when mergesort has returned the sequence is ascending: no element
\* compares less than its left-hand neighbour.
C1_Sorted == pc = "done" => Ascending(items)

C1_Witness ==
    /\ pc = "done" /\ round = 1
    /\ n_merge >= 1 /\ n_insert >= 1
    /\ ~Ascending(input)

\* C2: the sort is stable: in the output, adjacent elements that compare equal
\* appear with the smaller original position (idx) first.
C2_Stable == pc = "done" => Stable(items)

C2_Witness ==
    /\ pc = "done" /\ round = 1
    /\ n_merge >= 1
    /\ HasTie(items)
    /\ \E i \in 1..(n_items - 1) :
          items[i].val = items[i + 1].val /\ items[i + 1].idx > items[i].idx + 1

\* C3: after every insertion and every merge the sequence is a permutation of
\* the input (values and tags): nothing is duplicated, dropped or overwritten.
C3_Permutation == Permutation(items, input)

C3_Witness ==
    /\ pc = "collapse" /\ round = 1
    /\ n_merge >= 1 /\ n_insert >= 1
    /\ items # input

\* the steps that remain are bounded by Variant: it orders the states of one
\* invocation by head, then by the position in the loop body, then by the
\* depth of the stack, and the first invocation before the second
Rank ==
    CASE pc = "scan"     -> DivCap + 3
      [] pc = "collapse" -> n_div + 2
      [] pc = "run"      -> 1
      [] pc = "free"     -> 1
      [] OTHER           -> 0
Variant ==
    (2 - round) * (n_items + 2) * (DivCap + 4)
    + (CASE pc = "start" -> (n_items + 1) * (DivCap + 4)
         [] pc = "done"  -> 0
         [] OTHER        -> head * (DivCap + 4) + Rank)

\* C4 (as amended): every invocation returns (each step lowers the natural
\* number Variant, and the collapse always has a merge or the push to do); with
\* at least 2 elements it returns with head at the start of the sequence and
\* exactly one run on the stack, which spans the whole sequence; with fewer
\* than 2 elements it returns at once and no run stack has been set up.
C4_Terminates ==
    /\ [][Variant' < Variant]_vars
    /\ [](Variant >= 0)
    /\ [](pc = "collapse" => CanMerge3 \/ CanMerge2 \/ CanPush)
    /\ [](pc \in {"start", "run", "scan", "collapse", "free", "done"})
    /\ [](pc = "done" /\ n_items >= 2 =>
             head = 0 /\ n_div = 1 /\ div[1] = n_items)
    /\ [](pc = "done" /\ n_items < 2 => n_div = 0 /\ head = Unset)

C4_Witness ==
    /\ pc = "done"
    /\ n_items >= 2
    /\ n_merge >= 2
    /\ n_div = 1 /\ head = 0

\* C4 (as claimed): whenever mergesort has returned, head is at the start of
\* the sequence and the stack holds exactly one run spanning the sequence.
C4_Original ==
    pc = "done" => head = 0 /\ n_div = 1 /\ div[1] = n_items

\* C5: sorting the output of mergesort once more leaves every element (value
\* and tag) where the first sort put it.
C5_Idempotent == pc = "done" /\ round = 2 => items = first

C5_Witness ==
    /\ pc = "done" /\ round = 2
    /\ n_items >= MinRun + 1
    /\ HasTie(items)
    /\ \E i \in 1..n_items : items[i].idx # i - 1

\* C6: outside a collapse in progress (each time a run has been pushed, and
\* while the next run is scanned) every run of the stack is at most half as
\* long as the run immediately to its right.
C6_RunLengths ==
    Settled =>
        \A k \in 1..(n_div - 1) :
            RunLen(k) * size <= (RunLen(k + 1) * size) \div 2

C6_Witness ==
    /\ pc = "run"
    /\ n_div >= 2
    /\ n_merge >= 1

\* C7: the run stack never holds more than ceil(log2(n_items + 1)) entries,
\* so a push never writes past the DivCap entries of div.
C7_StackDepth ==
    /\ n_div <= CeilLog2(n_items + 1)
    /\ n_div <= DivCap
    /\ Len(div) = n_div

C7_Witness ==
    /\ pc = "collapse"
    /\ n_div = 2
    /\ CanMerge3

\* C8 (as amended): the scratch buffer needs less than the whole sequence, not
\* half of it: the right-hand run of every merge has at least MinRun elements,
\* so the left run copied to the buffer has at most n_items - MinRun elements
\* (which can be more than n_items / 2), and the capacity never exceeds that
\* many elements (or the one element of the generic insertion).
C8_ScratchBound ==
    /\ n_merge >= 1 => max_left <= n_items - MinRun
    /\ buf_size <= (IF n_items - MinRun > 1 THEN n_items - MinRun ELSE 1) * size
    /\ buf_size >= max_left * size

C8_Witness ==
    /\ pc = "done" /\ round = 1
    /\ 2 * max_left > n_items
    /\ buf_size = max_left * size

\* C8 (as claimed): in every merge the left run copied into the scratch buffer
\* has at most n_items / 2 elements, so the capacity of the buffer never
\* exceeds half of the size of the sequence.
C8_Original ==
    /\ 2 * max_left <= n_items
    /\ 2 * buf_size <= n_items * size

\* C9: with 0 or 1 element the call is a no-op: the sequence stays as it was,
\* compare is never called and no scratch storage is allocated.
C9_TrivialNoOp ==
    n_items < 2 =>
        /\ items = input
        /\ n_compare = 0
        /\ buf = <<>> /\ buf_size = 0

C9_Witness ==
    /\ pc = "done" /\ round = 2
    /\ n_items = 1
    /\ items = first

\* C10: for an already ascending sequence the scan finds one run that covers
\* the whole sequence, nothing is inserted or merged, compare is called at
\* most n_items times, and every element stays where it was.
C10_AscendingInput ==
    Ascending(input) =>
        /\ n_insert = 0 /\ n_merge = 0
        /\ n_compare <= n_items
        /\ items = input
        /\ pc = "collapse" => head = 0 /\ mid = n_items
        /\ n_div <= 1
        /\ n_div = 1 => div[1] = n_items /\ head = 0

C10_Witness ==
    /\ pc = "done" /\ round = 1
    /\ Ascending(input)
    /\ HasTie(input)
    /\ n_items > MinRun
    /\ n_compare = n_items - 1
    /\ n_div = 1

(***************************************************************************)
(* do_merge on its own: every pair of adjacent non-empty ascending ranges   *)
(* of a bounded array, with an empty scratch buffer or one that still      *)
(* holds what an earlier merge left in it                                  *)
(***************************************************************************)
\* operator< of the C++ test's Item
less(a, b) == a.val < b.val

\* the merge loop of the C++ do_merge: each exit is tested only after the
\* element of that list has been taken
RECURSIVE MergeLoopCc(_, _, _, _, _, _, _, _)
MergeLoopCc(s, bf, a, a_end, b, tl, dest, ncmp) ==
    IF ~less(At(s, b), At(bf, a))
    THEN LET s1 == [s EXCEPT ![dest + 1] = At(bf, a)]
         IN  IF a + 1 = a_end
             THEN [items |-> s1, ncmp |-> ncmp + 1,
                   dest |-> dest + 1, a |-> a + 1]
             ELSE MergeLoopCc(s1, bf, a + 1, a_end, b, tl, dest + 1, ncmp + 1)
    ELSE LET s1 == [s EXCEPT ![dest + 1] = At(s, b)]
         IN  IF b + 1 = tl
             THEN [items |-> s1, ncmp |-> ncmp + 1,
                   dest |-> dest + 1, a |-> a]
             ELSE MergeLoopCc(s1, bf, a, a_end, b + 1, tl, dest + 1, ncmp + 1)

\* the C++ do_merge: copy list "a", merge, move the remainder of list "a"
do_merge_cc(s, hd, md, tl) ==
    LET left == md - hd
        bf   == [k \in 1..left |-> s[hd + k]]
        r    == MergeLoopCc(s, bf, 0, left, md, tl, hd, 0)
    IN  [items  |-> MoveTo(r.items, r.dest, bf, r.a, left),
         ncmp   |-> r.ncmp,
         nwrite |-> (r.dest - hd) + (left - r.a),
         buf    |-> bf]

MergeLen == 5

\* the ranges [hd, md) and [md, tl) of s are non-empty and ascending
SortedRuns(s, hd, md, tl) ==
    /\ 0 <= hd /\ hd < md /\ md < tl /\ tl <= Len(s)
    /\ Ascending(SubSeq(s, hd + 1, md))
    /\ Ascending(SubSeq(s, md + 1, tl))

InitMerge ==
    /\ \E n \in 2..MergeLen : \E v \in [1..n -> 0..MaxVal] :
       \E sz \in ElemSizes :
       \E hd \in 0..(n - 2) : \E md \in 1..(n - 1) : \E tl \in 2..n :
       \E stale \in BOOLEAN :
          /\ items = [k \in 1..n |-> Item(v[k], k - 1)]
          /\ SortedRuns(items, hd, md, tl)
          /\ n_items = n
          /\ size = sz
          /\ head = hd /\ mid = md
          /\ div = <<tl>> /\ n_div = 1
          /\ buf = IF stale THEN items ELSE <<>>
          /\ buf_size = IF stale THEN n * sz ELSE 0
    /\ input = items
    /\ first = <<>>
    /\ round = 1
    /\ pc = "merge"
    /\ n_compare = 0 /\ n_insert = 0 /\ n_merge = 0 /\ n_merge3 = 0
    /\ n_free = 0 /\ max_left = 0
    /\ n_write = 0
    /\ last = "call"
    /\ alloc_failed = FALSE
    /\ inv = <<>> /\ bufs = <<>>
    /\ rev_copies = <<>>
    /\ loop = NoLoop

\* mergesort.c, lines 103-182
CallMerge ==
    /\ pc = "merge"
    /\ LET r == do_merge(items, head, mid, tail, size, buf, buf_size)
       IN  /\ items' = r.items
           /\ buf' = r.buf
           /\ buf_size' = r.buf_size
           /\ n_compare' = r.ncmp
           /\ n_write' = r.nwrite
    /\ n_merge' = 1
    /\ pc' = "merged"
    /\ last' = "do_merge"
    /\ UNCHANGED <<n_items, size, input, first, round, head, mid, div, n_div,
                   n_insert, n_merge3, n_free, max_left>>
    /\ UNCHANGED others

\* the do_merge of the C++ template
CallMergeCc ==
    /\ pc = "merge"
    /\ buf = <<>>
    /\ size = SizeofItem
    /\ LET r == do_merge_cc(items, head, mid, tail)
       IN  /\ items' = r.items
           /\ buf' = r.buf
           /\ buf_size' = Len(r.buf) * size
           /\ n_compare' = r.ncmp
           /\ n_write' = r.nwrite
    /\ n_merge' = 1
    /\ pc' = "merged"
    /\ last' = "do_merge_cc"
    /\ UNCHANGED <<n_items, size, input, first, round, head, mid, div, n_div,
                   n_insert, n_merge3, n_free, max_left>>
    /\ UNCHANGED others

NextMerge ==
    \/ CallMerge
    \/ CallMergeCc

SpecMerge == InitMerge /\ [][NextMerge]_vars

\* the element s[k] was in the left run when do_merge was called
FromLeft(e) == e.idx < mid

\* C11: do_merge, given two adjacent non-empty ascending ranges [head, mid)
\* and [mid, tail), leaves [head, tail) ascending and holding exactly the
\* elements of both ranges, every left-run element before every right-run
\* element that compares equal to it, and changes nothing outside
\* [head, tail)
C11_MergeContract ==
    pc = "merged" =>
        /\ Len(items) = Len(input)
        /\ Ascending(SubSeq(items, head + 1, tail))
        /\ Permutation(SubSeq(items, head + 1, tail),
                       SubSeq(input, head + 1, tail))
        /\ \A i, j \in (head + 1)..tail :
              (i < j /\ items[i].val = items[j].val)
                  => ~(FromLeft(items[j]) /\ ~FromLeft(items[i]))
        /\ \A k \in 1..Len(input) :
              (k <= head \/ k > tail) => items[k] = input[k]

C11_Witness ==
    /\ pc = "merged" /\ last = "do_merge"
    /\ head > 0
    /\ mid - head >= 2 /\ tail - mid >= 2
    /\ items # input
    /\ n_compare > 2
    /\ \E i, j \in (head + 1)..tail :
          /\ i < j /\ items[i].val = items[j].val
          /\ FromLeft(items[i]) /\ ~FromLeft(items[j])

\* the left run's last element is not greater than the right run's first
OrderedRuns == compare_items(At(input, mid - 1), At(input, mid)) < 1

SeparatedRuns == compare_items(At(input, head), At(input, tail - 1)) > 0

\* C17: with the left run's first element greater than the right run's last,
\* do_merge makes no comparison after that test and leaves [head, tail)
\* holding the right run in its order followed by the left run in its order
C17_SeparateSwap ==
    (pc = "merged" /\ last = "do_merge" /\ SeparatedRuns) =>
        /\ n_compare = 1
        /\ SubSeq(items, head + 1, tail) =
              SubSeq(input, mid + 1, tail) \o SubSeq(input, head + 1, mid)

C17_Witness ==
    /\ pc = "merged" /\ last = "do_merge"
    /\ SeparatedRuns
    /\ mid - head >= 2 /\ tail - mid >= 3
    /\ n_compare = 1
    /\ At(items, head) = At(input, mid)
    /\ At(items, tail - 1) = At(input, mid - 1)

(***************************************************************************)
(* the simple top-down merge sort (second implementation of mergesort.c)   *)
(***************************************************************************)
TdTakeLeftStrict(a, b) == compare_items(a, b) < 0
TdTakeLeft(a, b) == compare_items(a, b) < 1

\* the loop of its do_merge: one element is stored at every dest in
\* [items, b_end)
RECURSIVE TdMergeLoop(_, _, _, _, _, _, _)
TdMergeLoop(s, bf, a, a_end, b, b_end, dest) ==
    IF dest < b_end
    THEN IF b >= b_end \/ (a < a_end /\ TdTakeLeft(At(bf, a), At(s, b)))
         THEN TdMergeLoop([s EXCEPT ![dest + 1] = At(bf, a)],
                          bf, a + 1, a_end, b, b_end, dest + 1)
         ELSE TdMergeLoop([s EXCEPT ![dest + 1] = At(s, b)],
                          bf, a, a_end, b + 1, b_end, dest + 1)
    ELSE s

\* its do_merge, on the array s whose first half elements are list "a"
td_do_merge(s, half) ==
    TdMergeLoop(s, SubSeq(s, 1, half), 0, half, half, Len(s), 0)

RECURSIVE td_mergesort(_)
td_mergesort(s) ==
    IF Len(s) < 2
    THEN s
    ELSE LET half == Len(s) \div 2
         IN  td_do_merge(td_mergesort(SubSeq(s, 1, half))
                           \o td_mergesort(SubSeq(s, half + 1, Len(s))),
                         half)

\* C14: the adaptive mergesort and the top-down two-way merge sort leave
\* the same element (value and original-position tag) at every index
C14_SameAsTopDown ==
    pc = "done" => items = td_mergesort(input)

C14_Witness ==
    /\ pc = "done" /\ round = 1
    /\ HasTie(input)
    /\ ~Ascending(input)
    /\ n_merge >= 1 /\ n_insert >= 1
    /\ items = td_mergesort(input)
    /\ items # input

\* C15: when the run scan stops, [head, mid) is ascending and either head
\* is the start of the sequence or the run has at least MinRun elements; a
\* descent met while the run is shorter does not end the run (the scan goes
\* on one element further left with the same mid)
C15_ScanStop ==
    /\ [](last \in {"ScanEnd", "ScanBreak"} =>
            /\ pc = "collapse"
            /\ Ascending(SubSeq(items, head + 1, mid))
            /\ (head = 0 \/ mid - head >= MinRun))
    /\ [][(pc = "scan" /\ head > 0 /\ compare_items(At(items, head - 1),
                                                   At(items, head)) > 0
              /\ mid - head < MinRun)
            => (pc' = "scan" /\ mid' = mid /\ head' = head - 1
                  /\ Ascending(SubSeq(items', head' + 1, mid')))]_vars

C15_Witness ==
    /\ last = "ScanBreak"
    /\ head > 0
    /\ mid - head = MinRun
    /\ n_insert >= 2
    /\ n_div >= 1

(***************************************************************************)
(* inputs made of given runs: ascending blocks, each block's values above  *)
(* those of every block to its right, so that every block boundary is a    *)
(* descent; run lengths around MinRun and its multiples make the stack     *)
(* deep enough for 3-way merges with a right-hand neighbour                *)
(***************************************************************************)
MaxRuns == 5
MaxRunItems == 50
RunChoices == {MinRun, 2 * MinRun, 2 * MinRun + 1, 4 * MinRun, 4 * MinRun + 1}

RECURSIVE SumLens(_)
SumLens(lens) == IF lens = <<>> THEN 0 ELSE Head(lens) + SumLens(Tail(lens))

RECURSIVE RunVals(_)
RunVals(lens) ==
    IF lens = <<>>
    THEN <<>>
    ELSE LET rest == RunVals(Tail(lens))
         IN  [k \in 1..Head(lens) |-> Len(rest) + k - 1] \o rest

InitRuns ==
    /\ \E k \in 1..MaxRuns : \E l \in [1..k -> RunChoices] :
       \E single \in BOOLEAN :
          LET lens == IF single THEN l \o <<1>> ELSE l
              v    == RunVals(lens)
          IN  /\ SumLens(lens) <= MaxRunItems
              /\ items = [i \in 1..Len(v) |-> Item(v[i], i - 1)]
              /\ n_items = Len(v)
    /\ size = SizeofItem
    /\ input = items
    /\ first = <<>>
    /\ round = 1
    /\ Locals

SpecRuns == InitRuns /\ [][Next]_vars

\* the run being collapsed and the stacked runs, left to right, by their
\* boundaries: head, mid, div[n_div - 1] .. div[0]
CollapseBounds == <<head, mid>> \o [k \in 1..n_div |-> div[n_div + 1 - k]]
CollapseLen(k) == CollapseBounds[k + 1] - CollapseBounds[k]

\* C18: a 3-way merge is performed exactly when the stack has at least 2
\* entries and the new run is longer than both of the two topmost stacked
\* runs: whenever the code's test against the second-from-top run succeeds
\* the new run is longer than the top run too, and every step taken when
\* both are shorter is the 3-way merge
C18_ThreeWayWhen ==
    /\ [](pc = "collapse" =>
            (CanMerge3 <=> /\ n_div >= 2
                           /\ mid - head > tail - mid
                           /\ mid - head > tail2 - tail))
    /\ [][(pc = "collapse" /\ n_div >= 2 /\ mid - head > tail - mid
              /\ mid - head > tail2 - tail)
            <=> n_merge3' = n_merge3 + 1]_vars

C18_Witness ==
    /\ last = "Merge3"
    /\ head > 0
    /\ n_div >= 2
    /\ n_merge3 = 1

\* the runs of the collapse that are longer than half of their right-hand
\* neighbour
Violators ==
    {k \in 1..n_div : CollapseLen(k) * size > (CollapseLen(k + 1) * size) \div 2}

\* C19: right after a 3-way merge the merged run is shorter than its
\* right-hand neighbour on the stack, when it has one, and at no instant of
\* a collapse are more than two runs longer than half of their right-hand
\* neighbour
C19_AfterThreeWay ==
    /\ (last = "Merge3" /\ n_div >= 2) => tail - mid < tail2 - tail
    /\ pc = "collapse" => Cardinality(Violators) <= 2

C19_Witness ==
    /\ last = "Merge3"
    /\ n_div >= 2
    /\ head > 0
    /\ Violators = {1, 2}
    /\ tail - mid < tail2 - tail

\* C20: after the 3-way merges of a collapse the 2-way check does not end
\* the collapse: the new run is longer than half of the merged run, and the
\* step that follows the last 3-way merge merges the two, not a push
C20_ThreeWayThenMerge ==
    /\ []((last = "Merge3" /\ ~CanMerge3) =>
            /\ (mid - head) * size > ((tail - mid) * size) \div 2
            /\ CanMerge2
            /\ ~CanPush)
    /\ [][last = "Merge3" => last' \in {"Merge3", "Merge2"}]_vars

C20_Witness ==
    /\ last = "Merge3"
    /\ n_merge3 = 2
    /\ head > 0
    /\ ~CanMerge3
    /\ CanMerge2

(***************************************************************************)
(* allocation failure: the buffer is grown with g_realloc, whose result is *)
(* used unchecked; GLib's g_realloc does not return when the allocation    *)
(* fails, it terminates the program                                        *)
(***************************************************************************)
\* where control is after a failed g_realloc
ContinueOnFailure(p) == p
OnAllocFailure(p) == "abort"

\* the bytes the next step asks g_realloc for, 0 when it does not grow the
\* buffer: insert_head line 82, do_merge line 107 (3-way and 2-way merge)
GrowRequest ==
    IF /\ pc = "scan" /\ head > 0 /\ Descent(items, head)
       /\ RunTooShort(head, mid, size) /\ size \notin {4, 8}
       /\ buf_size < size
    THEN size
    ELSE IF CanMerge3 /\ buf_size < (tail - mid) * size
    THEN (tail - mid) * size
    ELSE IF CanMerge2 /\ buf_size < (mid - head) * size
    THEN (mid - head) * size
    ELSE 0

AllocFail ==
    /\ ~alloc_failed
    /\ GrowRequest > 0
    /\ alloc_failed' = TRUE
    /\ pc' = OnAllocFailure(pc)
    /\ last' = "AllocFail"
    /\ UNCHANGED <<items, n_items, size, input, first, round, head, mid, div,
                   n_div, buf, buf_size, n_compare, n_insert, n_merge,
                   n_merge3, n_free, max_left, n_write, inv, bufs,
                   rev_copies, loop>>

NextAlloc ==
    \/ Next
    \/ AllocFail

SpecAlloc == Init /\ [][NextAlloc]_vars

TwoItems == 6
Invocations == {1, 2}

\* the buffer invocation i uses: its own local
SharedBuf(i) == 1
BufOf(i) == i

\* arrays of the test driver's shape with every value halved, so that
\* values tie
TwoInput(n, swaps, rev) ==
    LET g == gen_array(n, swaps, rev)
    IN  [k \in 1..n |-> Item(g[k].val \div 2, k - 1)]

InitTwo ==
    /\ \E n1, n2 \in 0..TwoItems : \E r1, r2 \in BOOLEAN :
       \E s1 \in [1..NSwaps -> (0..(n1 - 1)) \X (0..(n1 - 1))] :
       \E s2 \in [1..NSwaps -> (0..(n2 - 1)) \X (0..(n2 - 1))] :
          inv = [i \in Invocations |->
                   LET a == IF i = 1 THEN TwoInput(n1, s1, r1)
                                     ELSE TwoInput(n2, s2, r2)
                   IN  [items |-> a, input |-> a, n_items |-> Len(a),
                        pc |-> "start", head |-> Unset, mid |-> Unset,
                        div |-> <<>>, n_div |-> 0,
                        m |-> <<>>, three |-> FALSE, copied |-> <<>>]]
    /\ bufs = [i \in Invocations |-> [buf |-> <<>>, buf_size |-> 0]]
    /\ items = <<>> /\ n_items = 0 /\ size = SizeofItem
    /\ input = <<>> /\ first = <<>> /\ round = 1
    /\ pc = "two"
    /\ head = Unset /\ mid = Unset
    /\ div = <<>> /\ n_div = 0
    /\ buf = <<>> /\ buf_size = 0
    /\ n_compare = 0 /\ n_insert = 0 /\ n_merge = 0 /\ n_merge3 = 0
    /\ n_free = 0 /\ max_left = 0
    /\ n_write = 0
    /\ last = "call"
    /\ alloc_failed = FALSE
    /\ rev_copies = <<>>
    /\ loop = NoLoop

\* what the interleaved invocations leave alone
single == <<items, n_items, size, input, first, round, pc, head, mid, div,
            n_div, buf, buf_size, n_compare, n_insert, n_merge, n_merge3,
            n_free, max_left, n_write, last, alloc_failed, rev_copies,
            loop>>

\* lines 214-225 as a whole: the scan of one run, insertions included
\* (elements of SizeofItem bytes take the word case, which uses no buffer)
RECURSIVE ScanRun(_, _, _)
ScanRun(s, hd, md) ==
    IF hd > 0
    THEN IF Descent(s, hd)
         THEN IF RunTooShort(hd, md, SizeofItem)
              THEN ScanRun(insert_head(s, hd - 1, md, SizeofItem, <<>>, 0).items,
                           hd - 1, md)
              ELSE [items |-> s, head |-> hd]
         ELSE ScanRun(s, hd - 1, md)
    ELSE [items |-> s, head |-> hd]

TwoThreeWay(st) ==
    /\ st.n_div >= 2
    /\ ThreeWay(st.head, st.mid, st.div[st.n_div], st.div[st.n_div - 1],
                SizeofItem)

TwoKeepRun(st) ==
    IF st.n_div = 0
    THEN TRUE
    ELSE /\ ~TwoThreeWay(st)
         /\ KeepRun(st.head, st.mid, st.div[st.n_div], SizeofItem)

\* lines 190-204
TwoEnter(i) ==
    /\ inv[i].pc = "start"
    /\ IF Trivial(inv[i].n_items)
       THEN /\ inv' = [inv EXCEPT ![i].pc = "done"]
            /\ UNCHANGED bufs
       ELSE /\ inv' = [inv EXCEPT ![i].pc = "run",
                                  ![i].head = inv[i].n_items]
            /\ bufs' = [bufs EXCEPT ![BufOf(i)] =
                           [buf |-> <<>>, buf_size |-> 0]]
    /\ UNCHANGED single

\* lines 208-225
TwoScan(i) ==
    /\ inv[i].pc = "run"
    /\ LET st == inv[i]
           r  == ScanRun(st.items, st.head - 1, st.head)
       IN  inv' = [inv EXCEPT ![i].pc = "collapse",
                              ![i].mid = st.head,
                              ![i].head = r.head,
                              ![i].items = r.items]
    /\ UNCHANGED <<bufs, single>>

\* lines 268-271 or 287-290, then do_merge lines 107-114
TwoCopy(i) ==
    /\ inv[i].pc = "collapse"
    /\ ~TwoKeepRun(inv[i])
    /\ LET st == inv[i]
           tl == st.div[st.n_div]
           m  == IF TwoThreeWay(st)
                 THEN <<st.mid, tl, st.div[st.n_div - 1]>>
                 ELSE <<st.head, st.mid, tl>>
           b  == bufs[BufOf(i)]
           c  == CopyLeft(st.items, m[1], m[2], SizeofItem, b.buf, b.buf_size)
       IN  /\ inv' = [inv EXCEPT ![i].pc = "merging",
                                 ![i].m = m,
                                 ![i].three = TwoThreeWay(st),
                                 ![i].copied = SubSeq(st.items, m[1] + 1, m[2])]
           /\ bufs' = [bufs EXCEPT ![BufOf(i)] =
                          [buf |-> c.buf, buf_size |-> c.buf_size]]
    /\ UNCHANGED single

\* do_merge lines 116-181, then lines 273-274 or 292-293
TwoMerge(i) ==
    /\ inv[i].pc = "merging"
    /\ LET st == inv[i]
           r  == MergeFrom(st.items, st.m[1], st.m[2], st.m[3],
                           bufs[BufOf(i)].buf)
       IN  inv' = [inv EXCEPT
                     ![i].pc = "collapse",
                     ![i].items = r.items,
                     ![i].mid = IF st.three THEN st.mid ELSE st.m[3],
                     ![i].div = IF st.three
                                THEN SubSeq(st.div, 1, st.n_div - 2)
                                       \o <<st.m[3]>>
                                ELSE SubSeq(st.div, 1, st.n_div - 1),
                     ![i].n_div = st.n_div - 1]
    /\ UNCHANGED <<bufs, single>>

\* lines 296-300
TwoPush(i) ==
    /\ inv[i].pc = "collapse"
    /\ TwoKeepRun(inv[i])
    /\ inv' = [inv EXCEPT ![i].div = Append(inv[i].div, inv[i].mid),
                          ![i].n_div = inv[i].n_div + 1,
                          ![i].pc = IF inv[i].head > 0 THEN "run" ELSE "free"]
    /\ UNCHANGED <<bufs, single>>

\* lines 302-303
TwoReturn(i) ==
    /\ inv[i].pc = "free"
    /\ inv' = [inv EXCEPT ![i].pc = "done"]
    /\ bufs' = [bufs EXCEPT ![BufOf(i)].buf = <<>>]
    /\ UNCHANGED single

NextTwo ==
    \E i \in Invocations :
        \/ TwoEnter(i)
        \/ TwoScan(i)
        \/ TwoCopy(i)
        \/ TwoMerge(i)
        \/ TwoPush(i)
        \/ TwoReturn(i)

SpecTwo == InitTwo /\ [][NextTwo]_vars

\* C12: the scratch buffer is private to an invocation: however the steps
\* of two invocations interleave, the buffer an invocation merges out of
\* holds the left run it copied itself, and each invocation returns with
\* its own sequence sorted, stable and a permutation of its input
C12_PrivateBuffer ==
    \A i \in Invocations :
        /\ inv[i].pc = "merging" =>
              /\ Len(bufs[BufOf(i)].buf) >= Len(inv[i].copied)
              /\ \A k \in 1..Len(inv[i].copied) :
                    bufs[BufOf(i)].buf[k] = inv[i].copied[k]
        /\ inv[i].pc = "done" =>
              /\ Ascending(inv[i].items)
              /\ Stable(inv[i].items)
              /\ Permutation(inv[i].items, inv[i].input)

C12_Witness ==
    /\ inv[1].pc = "merging" /\ inv[2].pc = "merging"
    /\ inv[1].copied # inv[2].copied
    /\ inv[1].input # inv[2].input
    /\ HasTie(inv[1].input)

\* the 2-way check is reached: the stack is not empty and no 3-way merge
\* applies
AtTwoWayCheck == pc = "collapse" /\ n_div >= 1 /\ ~CanMerge3

\* the step pushes the new run and ends the collapse
PushStep ==
    /\ div' = Append(div, mid)
    /\ n_div' = n_div + 1
    /\ pc' \in {"run", "free"}
    /\ UNCHANGED <<items, head, mid>>

\* the step merges the new run with its right-hand neighbour and goes back
\* to the checks of the collapse
MergeStep ==
    /\ n_merge' = n_merge + 1
    /\ n_merge3' = n_merge3
    /\ mid' = tail
    /\ n_div' = n_div - 1
    /\ pc' = "collapse"
    /\ UNCHANGED head

\* C21 as stated: at the 2-way check the new run is pushed if it is not
\* longer than half of its right-hand neighbour or if there is no input
\* left of it, and merged otherwise
C21_Original ==
    [][AtTwoWayCheck =>
          IF 2 * (mid - head) <= tail - mid \/ head = 0
          THEN PushStep
          ELSE MergeStep]_vars

\* C21: at the 2-way check the new run is pushed if it is not longer than
\* half of its right-hand neighbour and there is input left of it; otherwise
\* (it is longer, or head is at the start of the sequence) it is merged with
\* its right-hand neighbour and the checks of the collapse are repeated
C21_TwoWayCheck ==
    [][AtTwoWayCheck =>
          IF 2 * (mid - head) <= tail - mid /\ head > 0
          THEN PushStep
          ELSE MergeStep]_vars

C21_Witness ==
    /\ AtTwoWayCheck
    /\ last = "Merge2"
    /\ head = 0
    /\ 2 * (mid - head) <= tail - mid

\* C22: a sequence of 2, 3 or 4 elements is sorted by the insertion path
\* alone: do_merge is never called, the scan of the first run reaches the
\* start of the sequence, and the one run pushed is the whole sequence
C22_SmallInsertOnly ==
    n_items \in 2..MinRun =>
        /\ n_merge = 0 /\ n_merge3 = 0
        /\ buf_size <= size
        /\ pc = "scan" => mid = n_items
        /\ pc = "collapse" => head = 0 /\ mid = n_items /\ n_div = 0
        /\ pc \in {"free", "done"} =>
              /\ head = 0
              /\ n_div = 1 /\ div = <<n_items>>
              /\ Ascending(items)

C22_Witness ==
    /\ pc = "done" /\ round = 1
    /\ n_items = MinRun
    /\ n_insert = MinRun - 1
    /\ n_merge = 0
    /\ HasTie(items)

\* the largest number of bytes asked of the buffer so far in this
\* invocation: the longest left run merged, and one element once the generic
\* insertion has run
LargestRequest ==
    LET ins == IF n_insert > 0 /\ size \notin {4, 8} THEN size ELSE 0
        mrg == max_left * size
    IN  IF ins > mrg THEN ins ELSE mrg

\* C23: within one invocation the capacity of the scratch buffer never
\* decreases; it changes only in a merge or a generic insertion, only
\* upwards; it always equals the largest request so far and the buffer never
\* holds more than that; and the buffer is released once, by the step that
\* returns, never before and never twice (a call on fewer than 2 elements
\* returns before the buffer exists and has nothing to release)
C23_ScratchMonotonic ==
    /\ [](buf_size = LargestRequest)
    /\ [](Len(buf) * size <= buf_size)
    /\ [](n_free = IF pc = "done" /\ ~Trivial(n_items) THEN 1 ELSE 0)
    /\ [](pc = "done" => buf = <<>>)
    /\ [][last' # "Resort" =>
            /\ buf_size' >= buf_size
            /\ buf_size' > buf_size => last' \in {"Merge2", "Merge3", "ScanInsert"}
            /\ n_free' # n_free => (last' = "Return" /\ pc' = "done")]_vars

C23_Witness ==
    /\ pc = "done" /\ round = 1
    /\ size \notin {4, 8}
    /\ n_insert >= 1 /\ n_merge >= 1
    /\ buf_size > size
    /\ n_free = 1

\* the loop of the C++ do_merge reads *b and *a at the top of every
\* iteration and tests only the list it took from: every read is inside
\* list "a" (a < a_end) and inside list "b" (b < tail)
RECURSIVE CcLoopInside(_, _, _, _, _, _)
CcLoopInside(s, bf, a, a_end, b, tl) ==
    /\ a < a_end /\ a < Len(bf)
    /\ b < tl /\ b < Len(s)
    /\ IF ~less(At(s, b), At(bf, a))
       THEN a + 1 = a_end \/ CcLoopInside(s, bf, a + 1, a_end, b, tl)
       ELSE b + 1 = tl \/ CcLoopInside(s, bf, a, a_end, b + 1, tl)

CcReadsInside(s, hd, md, tl) ==
    CcLoopInside(s, SubSeq(s, hd + 1, md), 0, md - hd, md, tl)

\* C24: every call of do_merge by the adaptive sort, the 3-way call
\* do_merge (mid, tail, tail2) and the 2-way call do_merge (head, mid, tail),
\* has two non-empty ascending ranges that end inside the sequence, so the
\* merge loops that test exhaustion only after taking an element never read
\* past either run
C24_MergeCalls ==
    /\ CanMerge3 =>
          /\ SortedRuns(items, mid, tail, tail2)
          /\ tail2 <= n_items
          /\ CcReadsInside(items, mid, tail, tail2)
    /\ CanMerge2 =>
          /\ SortedRuns(items, head, mid, tail)
          /\ tail <= n_items
          /\ CcReadsInside(items, head, mid, tail)

C24_Witness ==
    /\ CanMerge3
    /\ n_div = 2
    /\ tail - mid >= MinRun
    /\ tail2 = n_items
    /\ CcReadsInside(items, mid, tail, tail2)

(***************************************************************************)
(* The hybrid variant: insertion sort below 16 elements, a top-down        *)
(* mergesort above, and mergesort2, the adaptive sort without the 3-way    *)
(* merge.  Its buffer is static and its do_merge copies with memcpy.       *)
(***************************************************************************)
HybItems == 17

\* below this length mergesort sorts by insertion
InsertionMax == 16

\* the two orders in which a memcpy may copy
CopyOrders == {"up", "down"}

\* memcpy of s[from, to) onto s starting at offset d, element after element
\* from the first one on
RECURSIVE CopyUp(_, _, _, _)
CopyUp(s, d, from, to) ==
    IF from < to
    THEN CopyUp([s EXCEPT ![d + 1] = s[from + 1]], d + 1, from + 1, to)
    ELSE s

\* the same copy from the last element on
RECURSIVE CopyDown(_, _, _, _)
CopyDown(s, d, from, to) ==
    IF from < to
    THEN CopyDown([s EXCEPT ![d + (to - from)] = s[to]], d, from, to - 1)
    ELSE s

\* the ranges [d, d + (to - from)) and [from, to) share an element
Overlap(d, from, to) ==
    from < to /\ d < to /\ from < d + (to - from)

\* memcpy within the array: when the ranges overlap its behaviour is
\* undefined, and the outcome depends on the order the library copies in
memcpy(s, d, from, to, order) ==
    IF order = "up" THEN CopyUp(s, d, from, to) ELSE CopyDown(s, d, from, to)

\* insert_single, the word case: the same code as insert_head
insert_single(s, hd, end) ==
    insert_head(s, hd, end, SizeofItem, <<>>, 0).items

\* the loop of insertion_sort, head counted down to the array's start
RECURSIVE InsertionLoop(_, _)
InsertionLoop(s, hd) ==
    IF hd > 0
    THEN InsertionLoop(IF Descent(s, hd)
                       THEN insert_single(s, hd - 1, Len(s))
                       ELSE s, hd - 1)
    ELSE s

insertion_sort(s) == IF Len(s) < 2 THEN s ELSE InsertionLoop(s, Len(s) - 1)

\* optimization for forward sequence: nothing to merge
Forward(s, md) == compare_items(At(s, md - 1), At(s, md)) < 1

\* do_merge of the hybrid variant; revs lists the run lengths of the
\* reverse-sequence copy, if it was made
hybrid_do_merge(s, hd, md, tl, bf, bfsz, order) ==
    IF Forward(s, md)
    THEN [items |-> s, buf |-> bf, buf_size |-> bfsz, revs |-> <<>>]
    ELSE LET c    == CopyLeft(s, hd, md, SizeofItem, bf, bfsz)
             left == md - hd
             sep  == Separate(At(s, hd), At(s, tl - 1))
             s1   == IF sep THEN memcpy(s, hd, md, tl, order) ELSE s
             dest == IF sep THEN hd + (tl - md) ELSE hd
             b    == IF sep THEN tl ELSE md
             r    == MergeLoop(s1, c.buf, 0, left, b, tl, dest, 0)
         IN  [items    |-> r.items,
              buf      |-> c.buf,
              buf_size |-> c.buf_size,
              revs     |-> IF sep
                           THEN <<[left |-> left, right |-> tl - md]>>
                           ELSE <<>>]

\* mergesort of the hybrid variant, on the array s
RECURSIVE hybrid_mergesort(_, _, _, _)
hybrid_mergesort(s, bf, bfsz, order) ==
    IF Len(s) < InsertionMax
    THEN [items |-> insertion_sort(s), buf |-> bf, buf_size |-> bfsz,
          revs |-> <<>>]
    ELSE LET half == Len(s) \div 2
             l == hybrid_mergesort(SubSeq(s, 1, half), bf, bfsz, order)
             r == hybrid_mergesort(SubSeq(s, half + 1, Len(s)),
                                   l.buf, l.buf_size, order)
             m == hybrid_do_merge(l.items \o r.items, 0, half, Len(s),
                                  r.buf, r.buf_size, order)
         IN  [items    |-> m.items,
              buf      |-> m.buf,
              buf_size |-> m.buf_size,
              revs     |-> l.revs \o r.revs \o m.revs]

\* the caller's array: the test driver's, before either sort is called
InitHybrid ==
    /\ \E n \in 0..HybItems : \E rev \in BOOLEAN :
       \E sw \in [1..NSwaps -> (0..(n - 1)) \X (0..(n - 1))] :
          /\ items = gen_array(n, sw, rev)
          /\ n_items = n
          /\ size = SizeofItem
    /\ input = items
    /\ first = <<>>
    /\ round = 1
    /\ pc = "hybrid"
    /\ head = Unset /\ mid = Unset
    /\ div = <<>> /\ n_div = 0
    /\ buf = <<>> /\ buf_size = 0
    /\ n_compare = 0 /\ n_insert = 0 /\ n_merge = 0 /\ n_merge3 = 0
    /\ n_free = 0 /\ max_left = 0
    /\ n_write = 0
    /\ last = "call"
    /\ alloc_failed = FALSE
    /\ inv = <<>> /\ bufs = <<>>
    /\ rev_copies = <<>>
    /\ loop = NoLoop

\* what the hybrid variant has no counterpart of
unused == <<n_items, size, input, first, round, n_compare, n_insert,
            n_merge3, n_free, max_left, n_write, alloc_failed, inv, bufs,
            loop>>

\* a call of mergesort, as a whole
HybridMergesort ==
    /\ pc = "hybrid"
    /\ \E order \in CopyOrders :
          LET r == hybrid_mergesort(items, buf, buf_size, order)
          IN  /\ items' = r.items
              /\ buf' = r.buf /\ buf_size' = r.buf_size
              /\ rev_copies' = rev_copies \o r.revs
              /\ n_merge' = Len(r.revs)
    /\ pc' = "done"
    /\ last' = "mergesort"
    /\ UNCHANGED <<head, mid, div, n_div>>
    /\ UNCHANGED unused

\* mergesort2, lines 186-193
Enter2 ==
    /\ pc = "hybrid"
    /\ IF n_items < 2
       THEN pc' = "done" /\ UNCHANGED head
       ELSE pc' = "run2" /\ head' = n_items
    /\ last' = "Enter2"
    /\ UNCHANGED <<items, mid, div, n_div, buf, buf_size, n_merge, rev_copies>>
    /\ UNCHANGED unused

\* lines 197-211: one run is scanned, insertions included
Scan2 ==
    /\ pc = "run2"
    /\ LET r == ScanRun(items, head - 1, head)
       IN  /\ items' = r.items
           /\ head' = r.head
    /\ mid' = head
    /\ pc' = "collapse2"
    /\ last' = "Scan2"
    /\ UNCHANGED <<div, n_div, buf, buf_size, n_merge, rev_copies>>
    /\ UNCHANGED unused

\* lines 213-224, one iteration that merges
Merge2of2 ==
    /\ pc = "collapse2"
    /\ n_div >= 1
    /\ ~KeepRun(head, mid, tail, size)
    /\ \E order \in CopyOrders :
          LET r == hybrid_do_merge(items, head, mid, tail, buf, buf_size,
                                   order)
          IN  /\ items' = r.items
              /\ buf' = r.buf /\ buf_size' = r.buf_size
              /\ rev_copies' = rev_copies \o r.revs
    /\ n_merge' = n_merge + 1
    /\ mid' = tail
    /\ n_div' = n_div - 1
    /\ div' = SubSeq(div, 1, n_div - 1)
    /\ last' = "Merge2of2"
    /\ UNCHANGED <<head, pc>>
    /\ UNCHANGED unused

\* lines 213-218 and 226-229: the loop is left and the run is pushed
Push2 ==
    /\ pc = "collapse2"
    /\ IF n_div >= 1 THEN KeepRun(head, mid, tail, size) ELSE TRUE
    /\ div' = Append(div, mid)
    /\ n_div' = n_div + 1
    /\ pc' = IF head > 0 THEN "run2" ELSE "done"
    /\ last' = "Push2"
    /\ UNCHANGED <<items, head, mid, buf, buf_size, n_merge, rev_copies>>
    /\ UNCHANGED unused

NextHybrid == HybridMergesort \/ Enter2 \/ Scan2 \/ Merge2of2 \/ Push2

SpecHybrid == InitHybrid /\ [][NextHybrid]_vars

\* C25: whenever the reverse-sequence fast path of the hybrid do_merge is
\* taken, from mergesort or from mergesort2, the right run is not longer
\* than the left run, so that the ranges of its memcpy do not overlap
C25_ReverseCopyDisjoint ==
    \A k \in 1..Len(rev_copies) :
        /\ rev_copies[k].right <= rev_copies[k].left
        /\ ~Overlap(0, rev_copies[k].left,
                    rev_copies[k].left + rev_copies[k].right)

(***************************************************************************)
(* do_merge of mergesort.c, one iteration of its loop at a time             *)
(***************************************************************************)
\* line 126: dest after the right run was moved to the head
DestUnmoved(hd, md, tl) == hd
DestAfterMove(hd, md, tl) == hd + (tl - md)

\* lines 131-177: the condition of the for loops
Interleave(st, tl) == st.a < st.a_end /\ st.b < tl

\* lines 107-128: list "a" is copied to the buffer; separate lists are
\* handled by moving list "b" to the head
LoopEnter ==
    /\ pc = "merge"
    /\ LET c   == CopyLeft(items, head, mid, size, buf, buf_size)
           sep == Separate(At(c.buf, 0), At(items, tail - 1))
       IN  /\ buf' = c.buf
           /\ buf_size' = c.buf_size
           /\ items' = IF sep THEN MoveTo(items, head, items, mid, tail)
                       ELSE items
           /\ loop' = [a     |-> 0,
                       a_end |-> mid - head,
                       b     |-> IF sep THEN tail ELSE mid,
                       dest  |-> IF sep THEN DestAfterMove(head, mid, tail)
                                 ELSE head]
           /\ n_write' = IF sep THEN tail - mid ELSE 0
    /\ n_compare' = 1
    /\ n_merge' = 1
    /\ pc' = "loop"
    /\ last' = "LoopEnter"
    /\ UNCHANGED <<n_items, size, input, first, round, head, mid, div, n_div,
                   n_insert, n_merge3, n_free, max_left>>
    /\ UNCHANGED <<alloc_failed, inv, bufs, rev_copies>>

\* lines 131-177, an iteration that takes the element of list "a"
LoopTakeA ==
    /\ pc = "loop"
    /\ Interleave(loop, tail)
    /\ TakeLeft(At(buf, loop.a), At(items, loop.b))
    /\ items' = [items EXCEPT ![loop.dest + 1] = At(buf, loop.a)]
    /\ loop' = [loop EXCEPT !.a = loop.a + 1, !.dest = loop.dest + 1]
    /\ n_compare' = n_compare + 1
    /\ n_write' = n_write + 1
    /\ last' = "LoopTakeA"
    /\ UNCHANGED <<n_items, size, input, first, round, pc, head, mid, div,
                   n_div, buf, buf_size, n_insert, n_merge, n_merge3, n_free,
                   max_left>>
    /\ UNCHANGED <<alloc_failed, inv, bufs, rev_copies>>

\* lines 131-177, an iteration that takes the element of list "b"
LoopTakeB ==
    /\ pc = "loop"
    /\ Interleave(loop, tail)
    /\ ~TakeLeft(At(buf, loop.a), At(items, loop.b))
    /\ items' = [items EXCEPT ![loop.dest + 1] = At(items, loop.b)]
    /\ loop' = [loop EXCEPT !.b = loop.b + 1, !.dest = loop.dest + 1]
    /\ n_compare' = n_compare + 1
    /\ n_write' = n_write + 1
    /\ last' = "LoopTakeB"
    /\ UNCHANGED <<n_items, size, input, first, round, pc, head, mid, div,
                   n_div, buf, buf_size, n_insert, n_merge, n_merge3, n_free,
                   max_left>>
    /\ UNCHANGED <<alloc_failed, inv, bufs, rev_copies>>

\* lines 179-182: the loop has ended; the remainder of list "a" is copied
LoopExit ==
    /\ pc = "loop"
    /\ ~Interleave(loop, tail)
    /\ items' = CopyRemainder(items, loop.dest, buf, loop.a, loop.a_end)
    /\ n_write' = n_write + (loop.a_end - loop.a)
    /\ pc' = "merged"
    /\ last' = "LoopExit"
    /\ UNCHANGED <<n_items, size, input, first, round, head, mid, div, n_div,
                   buf, buf_size, n_compare, n_insert, n_merge, n_merge3,
                   n_free, max_left>>
    /\ UNCHANGED others

NextLoop == LoopEnter \/ LoopTakeA \/ LoopTakeB \/ LoopExit

SpecLoop == InitMerge /\ [][NextLoop]_vars

\* C26: throughout the interleaving loop of do_merge the free slots between
\* the write position and the next unread element of the right run are as
\* many as the unconsumed elements of the scratch buffer
\* (b - dest = a_end - a); no unread element of the right run has been
\* overwritten; the buffer is read within the length of the current left
\* run; and when the loop ends at most one of the two sources is non-empty
C26_LoopInvariant ==
    pc = "loop" =>
        /\ loop.b - loop.dest = loop.a_end - loop.a
        /\ 0 <= loop.a /\ loop.a <= loop.a_end
        /\ mid <= loop.b /\ loop.b <= tail
        /\ head <= loop.dest /\ loop.dest <= loop.b
        /\ \A k \in loop.b..(tail - 1) : At(items, k) = At(input, k)
        /\ loop.a_end = mid - head /\ loop.a_end <= Len(buf)
        /\ \A k \in 0..(loop.a_end - 1) :
              k < Len(buf) => At(buf, k) = At(input, head + k)
        /\ Interleave(loop, tail) => loop.a < loop.a_end /\ loop.dest < loop.b
        /\ ~Interleave(loop, tail) => loop.a = loop.a_end \/ loop.b = tail

\* both lists have given an element and both still hold one, in a buffer
\* longer than the left run
C26_Witness ==
    /\ pc = "loop"
    /\ last = "LoopTakeB"
    /\ loop.a > 0 /\ loop.a < loop.a_end
    /\ loop.b < tail
    /\ loop.b - loop.dest = loop.a_end - loop.a
    /\ Len(buf) > loop.a_end
    /\ head > 0

====
